---- MODULE Spec2Model ----
(***************************************************************************)
(* A model of the vulcand registration protocol of scroll                  *)
(* (src/vulcand/registry.go): a Registry owns one lease, one backend spec  *)
(* and a list of frontend specs; Start writes them to the coordination     *)
(* store and launches a goroutine that revokes the lease once the          *)
(* Registry's context is canceled; Stop cancels the context and waits on   *)
(* the Registry's WaitGroup.                                               *)
(*                                                                         *)
(* The coordination store (etcd v3) is modelled by what the calls of the   *)
(* Registry ask of it: Put, Put with a lease, a lease with a TTL that the   *)
(* keep-alive stream renews while its context is live, Revoke.  A request  *)
(* may fail at any time; a request made with a canceled context fails; a   *)
(* Put that names a lease the store no longer has fails.                   *)
(***************************************************************************)
EXTENDS Integers, Sequences, FiniteSets, TLC

\* ------------------------------------------------------------------ bounds
MaxFrontends == 2   \* AddFrontend calls per Registry
MaxStarts    == 2   \* Start calls per Registry
MaxStops     == 2   \* Stop calls per Registry
LeaseTTL     == 2   \* the lease's TTL, in ticks of the store's clock

\* The Registry instances of the model, and the ones the caller drives.
Regs == {1, 2}
Single == {1}

VARIABLES
  frontendSpecs,  \* r.frontendSpecs: the list AddFrontend appends to
  ctxDone,        \* r.ctx is canceled (r.cancelFunc has been called)
  wg,             \* r.wg: the WaitGroup's counter
  pc,             \* where the caller of r's methods is
  feIdx,          \* Start: index of the frontend being registered
  mwIdx,          \* registerFrontend: index of the middleware being written
  watcher,        \* the goroutines Start has launched, in launch order
  store,          \* the coordination store: key -> [val, lease]
  lease,          \* the lease granted to r: [alive, ttl]
  trace,          \* the store requests of r's current (or last) Start
  startRet,       \* what r's last Start returned: "none", "nil", "err"
  revokes,        \* number of Revoke requests issued for r's lease
  starts,         \* number of Start calls made on r
  stops,          \* number of Stop calls made on r
  stopped,        \* number of Stop calls that have returned
  nr,             \* the call of NewRegistry: its arguments, position, result
  smr,            \* the SingleMasterRegistry instances and their store
  loc             \* a call of NewLocation: its arguments and its result

\* The state of the Registry instances and of their store.
regVars == <<frontendSpecs, ctxDone, wg, pc, feIdx, mwIdx, watcher, store,
             lease, trace, startRet, revokes, starts, stops, stopped>>

\* The state of the rest of the package, which the methods of a Registry
\* do not touch.
others == <<nr, smr, loc>>

vars == <<frontendSpecs, ctxDone, wg, pc, feIdx, mwIdx, watcher, store,
          lease, trace, startRet, revokes, starts, stops, stopped, nr, smr, loc>>

\* ------------------------------------------------------------ NewRegistry
\* defaultRegistrationTTL = 30 * time.Second; durations are in milliseconds.
defaultRegistrationTTL == 30000

\* The values of cfg.TTL NewRegistry is called with.
TTLInputs == {-1000, 0, 1, 500, 999, 1000, 1500, 2000, 30000, 45500}

\* d.Seconds() converted by int64(): the whole seconds of d, the fraction
\* cut off (toward zero).
Seconds(d) == IF d >= 0 THEN d \div 1000 ELSE -((-d) \div 1000)

\* The steps of NewRegistry that can fail, in the order of the code.
NewRegistrySteps == <<"newBackendSpec", "etcd.New", "Grant", "KeepAlive">>

\* NewRegistry(cfg, ...) has been called and has done nothing yet.
NrCalled(ttl, etcdNil) ==
  [pc |-> "newBackendSpec", cfgTTL |-> ttl, TTL |-> ttl, etcdNil |-> etcdNil,
   endpoints |-> IF etcdNil THEN "" ELSE "given",
   calls |-> << >>, grantTTL |-> -1, granted |-> FALSE, keepAlive |-> FALSE,
   reg |-> FALSE, err |-> FALSE]

\* NewRegistry has returned a Registry (called with no TTL and no etcd
\* configuration): the state the methods of the Registry start from.
NrBuilt ==
  [pc |-> "done", cfgTTL |-> 0, TTL |-> defaultRegistrationTTL, etcdNil |-> TRUE,
   endpoints |-> "127.0.0.1:2379",
   calls |-> <<[step |-> "newBackendSpec", ok |-> TRUE],
               [step |-> "etcd.New", ok |-> TRUE],
               [step |-> "Grant", ok |-> TRUE],
               [step |-> "KeepAlive", ok |-> TRUE]>>,
   grantTTL |-> Seconds(defaultRegistrationTTL), granted |-> TRUE,
   keepAlive |-> TRUE, reg |-> TRUE, err |-> FALSE]

\* One step of NewRegistry is made; a failed one returns (nil, err).
NrStep(step, ok, next) ==
  [nr EXCEPT !.calls = Append(@, [step |-> step, ok |-> ok]),
             !.pc = IF ok THEN next ELSE "done",
             !.err = ~ok]

\* newBackendSpec(appName, ip, port); then the defaults of cfg.TTL and
\* cfg.Etcd are filled in.
NewRegistry_newBackendSpec ==
  /\ nr.pc = "newBackendSpec"
  /\ \/ nr' = [NrStep("newBackendSpec", TRUE, "etcd.New") EXCEPT
                 !.TTL = IF nr.TTL <= 0 THEN defaultRegistrationTTL ELSE nr.TTL,
                 !.endpoints = IF nr.etcdNil THEN "127.0.0.1:2379" ELSE @]
     \/ nr' = NrStep("newBackendSpec", FALSE, "")
  /\ UNCHANGED <<regVars, smr, loc>>

\* etcd.New(*cfg.Etcd)
NewRegistry_etcdNew ==
  /\ nr.pc = "etcd.New"
  /\ \/ nr' = NrStep("etcd.New", TRUE, "Grant")
     \/ nr' = NrStep("etcd.New", FALSE, "")
  /\ UNCHANGED <<regVars, smr, loc>>

\* (mutant) a failed Grant is tried once more.
NewRegistry_Grant_Retrying ==
  /\ nr.pc = "Grant"
  /\ \/ nr' = [NrStep("Grant", TRUE, "KeepAlive") EXCEPT
                 !.grantTTL = Seconds(nr.TTL), !.granted = TRUE]
     \/ nr' = [NrStep("Grant", FALSE, "") EXCEPT !.grantTTL = Seconds(nr.TTL),
                 !.pc = IF Len(nr.calls) < 3 THEN "Grant" ELSE "done"]
  /\ UNCHANGED <<regVars, smr, loc>>

\* client.Grant(ctx, int64(cfg.TTL.Seconds()))
NewRegistry_Grant ==
  /\ nr.pc = "Grant"
  /\ \/ nr' = [NrStep("Grant", TRUE, "KeepAlive") EXCEPT
                 !.grantTTL = Seconds(nr.TTL), !.granted = TRUE]
     \/ nr' = [NrStep("Grant", FALSE, "") EXCEPT !.grantTTL = Seconds(nr.TTL)]
  /\ UNCHANGED <<regVars, smr, loc>>

\* client.KeepAlive(ctx, resp.ID); on success the Registry is returned.
NewRegistry_KeepAlive ==
  /\ nr.pc = "KeepAlive"
  /\ \/ nr' = [NrStep("KeepAlive", TRUE, "done") EXCEPT
                 !.keepAlive = TRUE, !.reg = TRUE]
     \/ nr' = NrStep("KeepAlive", FALSE, "")
  /\ UNCHANGED <<regVars, smr, loc>>

\* -------------------------------------------------------------- the specs
\* A middleware as the caller hands it over: its ID and whatever Priority
\* the caller put in it.
Mw(id, prio) == [ID |-> id, Priority |-> prio]

\* r.backendSpec.ID: one per instance; all instances are of one app.
backendID(r) == IF r = 1 THEN "b1" ELSE "b2"

\* The frontend specs AddFrontend is called with.  The second and the third
\* have the same Host and ID (the ID is derived from methods and path and
\* two routes can derive the same one) but different route expressions.
FrontendInputs ==
  { [Host |-> "h", ID |-> "get.a",  Route |-> "TrieRoute(GET, /a)",
     Middlewares |-> << Mw("m1", 7), Mw("m2", 7) >>],
    [Host |-> "h", ID |-> "post.b", Route |-> "TrieRoute(POST, /b)",
     Middlewares |-> << Mw("m1", 0) >>],
    [Host |-> "h", ID |-> "post.b", Route |-> "TrieRoute(POST, b)",
     Middlewares |-> << Mw("m2", 3) >>],
    [Host |-> "h", ID |-> "get.c",  Route |-> "TrieRoute(GET, /c)",
     Middlewares |-> << >>] }

\* ---------------------------------------------------------- keys and values
Key(kind, a, b) == [kind |-> kind, a |-> a, b |-> b]
NoKey == Key("", "", "")

\* backendFmt "%s/backends/%s/backend": one key per app.
betKey == Key("backend", "", "")
\* serverFmt "%s/backends/%s/servers/%s": one key per backend ID.
besKey(r) == Key("server", backendID(r), "")
\* frontendFmt "%s/frontends/%s.%s/frontend".
fesKey(fes) == Key("frontend", fes.Host \o "." \o fes.ID, "")
\* middlewareFmt "%s/frontends/%s.%s/middlewares/%s".
mwKey(fes, mw) == Key("middleware", fes.Host \o "." \o fes.ID, mw.ID)

\* bes.typeSpec() and bes.serverSpec().
typeSpec == "{Type:http}"
serverSpec(r) == "{URL:" \o backendID(r) \o "}"
\* fes.spec(): the frontend document.
spec(fes) == "{Host:" \o fes.Host \o ",Route:" \o fes.Route \o "}"
\* json.Marshal(mw): the middleware document carries ID and Priority.
Marshal(mw) == "{ID:" \o mw.ID \o ",Priority:" \o ToString(mw.Priority) \o "}"

\* r.leaseID; 0 stands for "no lease".
leaseID(r) == r

\* ------------------------------------------------------------- the store
\* Put: the key holds the value, attached to the lease (0: to none).
StorePut(s, k, v, l) ==
  [x \in DOMAIN s \cup {k} |-> IF x = k THEN [val |-> v, lease |-> l] ELSE s[x]]

\* (mutant) the store drops the keys attached to any lease.
StoreDropLease_AnyLease(s, l) ==
  [x \in {k \in DOMAIN s : s[k].lease = 0} |-> s[x]]

\* The store drops a lease: every key attached to it goes with it.
StoreDropLease(s, l) ==
  [x \in {k \in DOMAIN s : s[k].lease # l} |-> s[x]]

\* A Put made with r.ctx can succeed only while r.ctx is live, and one that
\* names r's lease only while the store has the lease.
CanPut(r, l) == ~ctxDone[r] /\ (l # 0 => lease[r].alive)

\* One entry of the trace of Start.
Ev(kind, fe, mw, k, v, l, ok) ==
  [kind |-> kind, fe |-> fe, mw |-> mw, key |-> k, val |-> v,
   lease |-> l, ok |-> ok]

\* ------------------------------------------------------------------- Init
\* The state NewRegistry leaves: lease granted with the full TTL, keep-alive
\* running, context live, no frontend, nothing written yet.
RegInit ==
  /\ frontendSpecs = [r \in Regs |-> << >>]
  /\ ctxDone = [r \in Regs |-> FALSE]
  /\ wg = [r \in Regs |-> 0]
  /\ pc = [r \in Regs |-> "idle"]
  /\ feIdx = [r \in Regs |-> 0]
  /\ mwIdx = [r \in Regs |-> 0]
  /\ watcher = [r \in Regs |-> << >>]
  /\ store = << >>
  /\ lease = [r \in Regs |-> [alive |-> TRUE, ttl |-> LeaseTTL]]
  /\ trace = [r \in Regs |-> << >>]
  /\ startRet = [r \in Regs |-> "none"]
  /\ revokes = [r \in Regs |-> 0]
  /\ starts = [r \in Regs |-> 0]
  /\ stops = [r \in Regs |-> 0]
  /\ stopped = [r \in Regs |-> 0]

\* ---------------------------------------------------- SingleMasterRegistry
\* (src/unnamed/part_001)  Instances of one app register under one key: the
\* server key is made of s.Key, the app's name and masterNodeID, the same
\* for all of them; the value is the server spec of the instance's own
\* endpoint.  The store is etcd v2: Set writes, Create writes if the key is
\* absent, CompareAndSwap writes if the key holds prevValue; a key written
\* with a TTL expires when it is not written again in time.
SmTTL == 2   \* s.TTL, in ticks of the store's clock

\* The instances, and the server spec (the URL) of each.
Insts == {1, 2}
ServerSpecOf(i) == IF i = 1 THEN "{URL:host1}" ELSE "{URL:host2}"

Absent == [present |-> FALSE, val |-> "", ttl |-> 0]

\* NewSingleMasterRegistry for every instance, nothing registered yet.
SmInit ==
  [IsMaster |-> [i \in Insts |-> FALSE],
   pc       |-> [i \in Insts |-> "idle"],
   ret      |-> [i \in Insts |-> "none"],
   cause    |-> [i \in Insts |-> ""],
   backend  |-> FALSE,
   server   |-> Absent]

\* RegisterApp returns ret to its caller; cause names the return statement.
SmReturn(i, ret, cause) ==
  [smr EXCEPT !.pc[i] = "idle", !.ret[i] = ret, !.cause[i] = cause]

SmFrame == UNCHANGED <<regVars, nr, loc>>

\* RegisterApp: NewEndpointWithID(masterNodeID, name, host, port); when the
\* endpoint is not valid the error is dropped and nil is returned.
SM_RegisterApp(i, valid) ==
  /\ smr.pc[i] = "idle"
  /\ smr' = IF valid
            THEN [smr EXCEPT !.pc[i] = "registerBackend", !.ret[i] = "none",
                             !.cause[i] = ""]
            ELSE SmReturn(i, "nil", "endpoint")
  /\ SmFrame

\* registerBackend: endpoint.BackendSpec(), then Client.Set(key, backend, 0).
SM_registerBackend_ok(i) ==
  /\ smr.pc[i] = "registerBackend"
  /\ smr' = [smr EXCEPT !.pc[i] = "registerServer", !.backend = TRUE]
  /\ SmFrame

SM_registerBackend_err(i) ==
  /\ smr.pc[i] = "registerBackend"
  /\ \E cause \in {"BackendSpec", "Set"} : smr' = SmReturn(i, "err", cause)
  /\ SmFrame

\* registerServer, either branch: endpoint.ServerSpec() fails, and nil is
\* returned.
SM_registerServer_specErr(i) ==
  /\ smr.pc[i] = "registerServer"
  /\ smr' = SmReturn(i, "nil", "ServerSpec")
  /\ SmFrame

\* (mutant) the server record is written with Set, whatever the key holds.
SM_assumeMasterRole_ok_Set(i) ==
  /\ smr.pc[i] = "registerServer"
  /\ ~smr.IsMaster[i]
  /\ smr' = [SmReturn(i, "nil", "Create") EXCEPT
               !.server = [present |-> TRUE, val |-> ServerSpecOf(i), ttl |-> SmTTL],
               !.IsMaster[i] = TRUE]
  /\ SmFrame

\* assumeMasterRole: Client.Create(key, server, s.TTL) succeeds, which it
\* can only when the key is absent; s.IsMaster = true.
SM_assumeMasterRole_ok(i) ==
  /\ smr.pc[i] = "registerServer"
  /\ ~smr.IsMaster[i]
  /\ ~smr.server.present
  /\ smr' = [SmReturn(i, "nil", "Create") EXCEPT
               !.server = [present |-> TRUE, val |-> ServerSpecOf(i), ttl |-> SmTTL],
               !.IsMaster[i] = TRUE]
  /\ SmFrame

\* assumeMasterRole: Client.Create fails (the key exists, or the store
\* cannot be reached); s.IsMaster stays false.
SM_assumeMasterRole_err(i) ==
  /\ smr.pc[i] = "registerServer"
  /\ ~smr.IsMaster[i]
  /\ smr' = SmReturn(i, "err", "Create")
  /\ SmFrame

\* maintainMasterRole: Client.CompareAndSwap(key, server, s.TTL, server, 0)
\* succeeds, which it can only when the key holds the instance's own server
\* spec; the record's TTL starts anew.
SM_maintainMasterRole_ok(i) ==
  /\ smr.pc[i] = "registerServer"
  /\ smr.IsMaster[i]
  /\ smr.server.present /\ smr.server.val = ServerSpecOf(i)
  /\ smr' = [SmReturn(i, "nil", "CompareAndSwap") EXCEPT
               !.server = [present |-> TRUE, val |-> ServerSpecOf(i), ttl |-> SmTTL],
               !.IsMaster[i] = TRUE]
  /\ SmFrame

\* (mutant) a failed CompareAndSwap leaves s.IsMaster as it is.
SM_maintainMasterRole_err_StillMaster(i) ==
  /\ smr.pc[i] = "registerServer"
  /\ smr.IsMaster[i]
  /\ smr' = SmReturn(i, "err", "CompareAndSwap")
  /\ SmFrame

\* maintainMasterRole: CompareAndSwap fails; s.IsMaster = false.
SM_maintainMasterRole_err(i) ==
  /\ smr.pc[i] = "registerServer"
  /\ smr.IsMaster[i]
  /\ smr' = [SmReturn(i, "err", "CompareAndSwap") EXCEPT !.IsMaster[i] = FALSE]
  /\ SmFrame

\* The store's clock: the server record has one tick less to live, and at
\* zero it expires.
SM_Tick ==
  /\ smr.server.present
  /\ smr' = IF smr.server.ttl > 0
            THEN [smr EXCEPT !.server.ttl = @ - 1]
            ELSE [smr EXCEPT !.server = Absent]
  /\ SmFrame

\* The process of an instance dies: it makes no further call.
SM_Down(i) ==
  /\ smr.pc[i] # "down"
  /\ smr' = [smr EXCEPT !.pc[i] = "down"]
  /\ SmFrame

SmStep(i) ==
  \/ \E valid \in BOOLEAN : SM_RegisterApp(i, valid)
  \/ SM_registerBackend_ok(i)
  \/ SM_registerBackend_err(i)
  \/ SM_registerServer_specErr(i)
  \/ SM_assumeMasterRole_ok(i)
  \/ SM_assumeMasterRole_err(i)
  \/ SM_maintainMasterRole_ok(i)
  \/ SM_maintainMasterRole_err(i)
  \/ SM_Down(i)

SmNext == (\E i \in Insts : SmStep(i)) \/ SM_Tick

\* ------------------------------------------------------------ NewLocation
\* (src/vulcan/location.go)  A string is the sequence of its characters.
MaxMethods == 2   \* length of the method list

Upper ==
  <<"A", "B", "C", "D", "E", "F", "G", "H", "I", "J", "K", "L", "M",
    "N", "O", "P", "Q", "R", "S", "T", "U", "V", "W", "X", "Y", "Z">>
Lower ==
  <<"a", "b", "c", "d", "e", "f", "g", "h", "i", "j", "k", "l", "m",
    "n", "o", "p", "q", "r", "s", "t", "u", "v", "w", "x", "y", "z">>

\* strings.ToLower
ToLowerChar(c) ==
  IF \E i \in DOMAIN Upper : Upper[i] = c
  THEN Lower[CHOOSE i \in DOMAIN Upper : Upper[i] = c]
  ELSE c
ToLower(str) == [i \in DOMAIN str |-> ToLowerChar(str[i])]

\* strings.Replace(str, old, new, -1) for one-character old and new.
Replace(str, old, new) == [i \in DOMAIN str |-> IF str[i] = old THEN new ELSE str[i]]

\* strings.Join(strs, sep)
RECURSIVE Join(_, _)
Join(strs, sep) ==
  IF strs = << >> THEN << >>
  ELSE IF Len(strs) = 1 THEN strs[1]
  ELSE strs[1] \o sep \o Join(Tail(strs), sep)

\* (mutant) only the opening curly bracket is replaced.
convertPath_OpenOnly(path) == Replace(path, "{", "<")

\* convertPath: curly brackets become angle brackets.
convertPath(path) == Replace(Replace(path, "{", "<"), "}", ">")

\* (mutant) the ID is not lower-cased.
makeLocationID_AsGiven(methods, path) ==
  Replace(Join(methods, <<".">>) \o path, "/", ".")

\* makeLocationID: ToLower(Replace(Join(methods, ".") + path, "/", ".", -1))
makeLocationID(methods, path) ==
  ToLower(Replace(Join(methods, <<".">>) \o path, "/", "."))

TrieRouteOpen ==
  <<"T", "r", "i", "e", "R", "o", "u", "t", "e", "(", "\"">>

\* (mutant) the route matches the path alone.
makeLocationPath_NoMethods(methods, path) ==
  TrieRouteOpen \o path \o <<"\"", ")">>

\* (mutant) the methods are separated by a comma without the space.
makeLocationPath_CommaOnly(methods, path) ==
  TrieRouteOpen \o Join(methods, <<"\"", ",", "\"">>)
    \o <<"\"", ",", " ", "\"">> \o path \o <<"\"", ")">>

\* makeLocationPath: Sprintf(`TrieRoute("%v", "%v")`, Join(methods, `", "`), path)
makeLocationPath(methods, path) ==
  TrieRouteOpen \o Join(methods, <<"\"", ",", " ", "\"">>)
    \o <<"\"", ",", " ", "\"">> \o path \o <<"\"", ")">>

\* defaultFailoverPredicate
defaultFailoverPredicate ==
  <<"(", "I", "s", "N", "e", "t", "w", "o", "r", "k", "E", "r", "r",
    "o", "r", "(", ")", " ", "|", "|", " ", "R", "e", "s", "p", "o",
    "n", "s", "e", "C", "o", "d", "e", "(", ")", " ", "=", "=", " ",
    "5", "0", "3", ")", " ", "&", "&", " ", "A", "t", "t", "e", "m",
    "p", "t", "s", "(", ")", " ", "<", "=", " ", "2">>

OptionsOpen ==
  <<"{", "\"", "F", "a", "i", "l", "o", "v", "e", "r", "P", "r", "e",
    "d", "i", "c", "a", "t", "e", "\"", ":", " ", "\"">>

\* What encoding/json writes for a character of a string: the angle
\* brackets and the ampersand are written as six-character escapes.
HTMLEscape(c) ==
  CASE c = "<" -> <<"\\", "u", "0", "0", "3", "c">>
    [] c = ">" -> <<"\\", "u", "0", "0", "3", "e">>
    [] c = "&" -> <<"\\", "u", "0", "0", "2", "6">>
    [] OTHER   -> <<c>>

RECURSIVE Escaped(_)
Escaped(str) ==
  IF str = << >> THEN << >> ELSE HTMLEscape(Head(str)) \o Escaped(Tail(str))

\* (mutant) the options are marshaled by the standard library's marshaller.
MarshalJSON_Std(o) == OptionsOpen \o Escaped(o) \o <<"\"", "}">>

\* LocationOptions.MarshalJSON: Sprintf(`{"FailoverPredicate": "%v"}`, o)
MarshalJSON(o) == OptionsOpen \o o \o <<"\"", "}">>

\* The methods, paths and failover predicates of the calls.
MethodInputs ==
  { <<"G", "E", "T">>, <<"P", "O", "S", "T">>, <<"g", "e", "t">>,
    <<"A">>, <<"A", ".", "A">> }
PathInputs ==
  { << >>,
    <<"/", "h", "e", "l", "l", "o">>,
    <<"/", "r", "e", "s", "o", "u", "r", "c", "e", "s", "/", "{",
      "i", "d", "}">>,
    <<"/", "a", "/", "{", "b", "}", "/", "{", "c", "}">> }
PredicateInputs ==
  { defaultFailoverPredicate,
    <<"A", "(", ")", " ", "&", "&", " ", "B", "(", ")", " ", "<", "3">>,
    <<"x", ">", "1", "&", "y">> }

\* The method lists of up to n methods.
RECURSIVE MethodLists(_)
MethodLists(n) ==
  IF n = 0 THEN {<< >>}
  ELSE MethodLists(n - 1) \cup
       {Append(l, m) : l \in {x \in MethodLists(n - 1) : Len(x) = n - 1},
                       m \in MethodInputs}

\* No call of NewLocation.
LocIdle ==
  [pc |-> "idle", methods |-> << >>, path |-> << >>, ID |-> << >>,
   Path |-> << >>, FailoverPredicate |-> << >>, json |-> << >>]

\* NewLocation(host, methods, path, ...) has been called.
LocCalled(methods, path) ==
  [LocIdle EXCEPT !.pc = "NewLocation", !.methods = methods, !.path = path]

LocFrame == UNCHANGED <<regVars, nr, smr>>

\* NewLocation: path = convertPath(path), then the ID and the route.
NewLocation ==
  /\ loc.pc = "NewLocation"
  /\ LET path == convertPath(loc.path) IN
     loc' = [loc EXCEPT !.pc = "Location",
                        !.ID = makeLocationID(loc.methods, path),
                        !.Path = makeLocationPath(loc.methods, path),
                        !.FailoverPredicate = defaultFailoverPredicate]
  /\ LocFrame

\* The caller sets Options.FailoverPredicate.
SetFailoverPredicate(o) ==
  /\ loc.pc = "Location"
  /\ loc.FailoverPredicate # o
  /\ loc' = [loc EXCEPT !.FailoverPredicate = o]
  /\ LocFrame

\* The Options of the Location are marshaled.
Location_MarshalJSON ==
  /\ loc.pc = "Location"
  /\ loc' = [loc EXCEPT !.pc = "marshaled",
                        !.json = MarshalJSON(loc.FailoverPredicate)]
  /\ LocFrame

LocInit ==
  /\ \E methods \in MethodLists(MaxMethods), path \in PathInputs :
       loc = LocCalled(methods, path)
  /\ RegInit /\ nr = NrBuilt /\ smr = SmInit

LocNext ==
  \/ NewLocation
  \/ \E o \in PredicateInputs : SetFailoverPredicate(o)
  \/ Location_MarshalJSON

Init == RegInit /\ nr = NrBuilt /\ smr = SmInit /\ loc = LocIdle

SmSpec == Init /\ [][SmNext]_vars

LocSpec == LocInit /\ [][LocNext]_vars

\* The same, with what failover relies on: the store's clock advances, a
\* live instance keeps calling RegisterApp with its (valid) endpoint and
\* every call returns, and neither the store is out of reach nor the
\* serialization of the endpoint fails forever: a request that could be made,
\* or could succeed, again and again is made, or does succeed.
SmFairness(i) ==
  /\ SF_vars(SM_RegisterApp(i, TRUE))
  /\ SF_vars(SM_registerBackend_ok(i))
  /\ SF_vars(SM_assumeMasterRole_ok(i))
  /\ WF_vars(SM_registerBackend_ok(i) \/ SM_registerBackend_err(i))
  /\ WF_vars(SM_assumeMasterRole_ok(i) \/ SM_assumeMasterRole_err(i))
  /\ SF_vars(SM_maintainMasterRole_ok(i) \/ SM_maintainMasterRole_err(i))

SmFairSpec == SmSpec /\ WF_vars(SM_Tick) /\ \A i \in Insts : SmFairness(i)

\* ------------------------------------------------------------ AddFrontend
\* (mutant) the new spec is put in front of the list.
AddFrontend_Prepending(r, fes) ==
  /\ pc[r] = "idle"
  /\ Len(frontendSpecs[r]) < MaxFrontends
  /\ frontendSpecs' = [frontendSpecs EXCEPT ![r] = <<fes>> \o @]
  /\ UNCHANGED others
  /\ UNCHANGED <<ctxDone, wg, pc, feIdx, mwIdx, watcher, store, lease, trace,
                 startRet, revokes, starts, stops, stopped>>

\* r.frontendSpecs = append(r.frontendSpecs, newFrontendSpec(...))
AddFrontend(r, fes) ==
  /\ pc[r] = "idle"
  /\ Len(frontendSpecs[r]) < MaxFrontends
  /\ frontendSpecs' = [frontendSpecs EXCEPT ![r] = Append(@, fes)]
  /\ UNCHANGED others
  /\ UNCHANGED <<ctxDone, wg, pc, feIdx, mwIdx, watcher, store, lease, trace,
                 startRet, revokes, starts, stops, stopped>>

\* ------------------------------------------------------------------ Start
\* r.cancelFunc()
cancelFunc(r) == [ctxDone EXCEPT ![r] = TRUE]

\* (mutant) a failed Put rolls back: the keys this Start has written so far
\* are deleted.
Put_RollingBack(r, kind, fe, mw, k, v, l, ok) ==
  /\ ok => CanPut(r, l)
  /\ trace' = [trace EXCEPT ![r] = Append(@, Ev(kind, fe, mw, k, v, l, ok))]
  /\ store' = IF ok THEN StorePut(store, k, v, l)
              ELSE [x \in DOMAIN store \
                          {trace[r][i].key : i \in 1..Len(trace[r])} |-> store[x]]

\* A Put request and its outcome: logged in the trace, and applied to the
\* store when it succeeds.
Put(r, kind, fe, mw, k, v, l, ok) ==
  /\ ok => CanPut(r, l)
  /\ trace' = [trace EXCEPT ![r] = Append(@, Ev(kind, fe, mw, k, v, l, ok))]
  /\ store' = IF ok THEN StorePut(store, k, v, l) ELSE store

\* Start returns ret to its caller.
Return(r, ret) ==
  /\ pc' = [pc EXCEPT ![r] = "idle"]
  /\ startRet' = [startRet EXCEPT ![r] = ret]
  /\ feIdx' = [feIdx EXCEPT ![r] = 0]
  /\ mwIdx' = [mwIdx EXCEPT ![r] = 0]

\* The two range loops of Start and registerFrontend, after the write of
\* middleware mw (0: the frontend record itself) of frontend fe (0: before
\* the first frontend): the next middleware of this frontend, else the next
\* frontend, else Start returns nil.
Continue(r, fe, mw) ==
  IF fe > 0 /\ mw < Len(frontendSpecs[r][fe].Middlewares)
  THEN /\ pc' = [pc EXCEPT ![r] = "mwKey"]
       /\ mwIdx' = [mwIdx EXCEPT ![r] = mw + 1]
       /\ UNCHANGED <<feIdx, startRet>>
  ELSE IF fe < Len(frontendSpecs[r])
  THEN /\ pc' = [pc EXCEPT ![r] = "fesKey"]
       /\ feIdx' = [feIdx EXCEPT ![r] = fe + 1]
       /\ mwIdx' = [mwIdx EXCEPT ![r] = 0]
       /\ UNCHANGED startRet
  ELSE Return(r, "nil")

\* (mutant) Start forgets the backend: it goes straight to the goroutine and
\* the frontends.
Start_SkipBackend(r) ==
  /\ pc[r] = "idle"
  /\ starts[r] < MaxStarts
  /\ starts' = [starts EXCEPT ![r] = @ + 1]
  /\ pc' = [pc EXCEPT ![r] = "go"]
  /\ trace' = [trace EXCEPT ![r] = << >>]
  /\ startRet' = [startRet EXCEPT ![r] = "none"]
  /\ UNCHANGED others
  /\ UNCHANGED <<frontendSpecs, ctxDone, wg, feIdx, mwIdx, watcher, store,
                 lease, revokes, stops, stopped>>

\* The caller enters Start; the first statement is registerBackend.
Start(r) ==
  /\ pc[r] = "idle"
  /\ starts[r] < MaxStarts
  /\ starts' = [starts EXCEPT ![r] = @ + 1]
  /\ pc' = [pc EXCEPT ![r] = "betKey"]
  /\ trace' = [trace EXCEPT ![r] = << >>]
  /\ startRet' = [startRet EXCEPT ![r] = "none"]
  /\ UNCHANGED others
  /\ UNCHANGED <<frontendSpecs, ctxDone, wg, feIdx, mwIdx, watcher, store,
                 lease, revokes, stops, stopped>>

\* registerBackend: Put(betKey, typeSpec), no lease.
registerBackend_betKey(r) ==
  /\ pc[r] = "betKey"
  /\ \/ /\ Put(r, "backend", 0, 0, betKey, typeSpec, 0, TRUE)
        /\ pc' = [pc EXCEPT ![r] = "besKey"]
        /\ UNCHANGED <<startRet, feIdx, mwIdx>>
     \/ /\ Put(r, "backend", 0, 0, betKey, typeSpec, 0, FALSE)
        /\ Return(r, "err")
  /\ UNCHANGED others
  /\ UNCHANGED <<frontendSpecs, ctxDone, wg, watcher, lease, revokes, starts,
                 stops, stopped>>

\* registerBackend: Put(besKey, serverSpec, WithLease(leaseID)); its error,
\* nil on success, is what registerBackend returns.
registerBackend_besKey(r) ==
  /\ pc[r] = "besKey"
  /\ \/ /\ Put(r, "server", 0, 0, besKey(r), serverSpec(r), leaseID(r), TRUE)
        /\ pc' = [pc EXCEPT ![r] = "serverPut"]
        /\ UNCHANGED <<startRet, feIdx, mwIdx>>
     \/ /\ Put(r, "server", 0, 0, besKey(r), serverSpec(r), leaseID(r), FALSE)
        /\ Return(r, "err")
  /\ UNCHANGED others
  /\ UNCHANGED <<frontendSpecs, ctxDone, wg, watcher, lease, revokes, starts,
                 stops, stopped>>

\* Start: "Write our backend spec config", the same Put once more.
Start_serverPut(r) ==
  /\ pc[r] = "serverPut"
  /\ \/ /\ Put(r, "server", 0, 0, besKey(r), serverSpec(r), leaseID(r), TRUE)
        /\ pc' = [pc EXCEPT ![r] = "go"]
        /\ UNCHANGED <<startRet, feIdx, mwIdx>>
     \/ /\ Put(r, "server", 0, 0, besKey(r), serverSpec(r), leaseID(r), FALSE)
        /\ Return(r, "err")
  /\ UNCHANGED others
  /\ UNCHANGED <<frontendSpecs, ctxDone, wg, watcher, lease, revokes, starts,
                 stops, stopped>>

\* Start: go func() {...}().  The goroutine is launched blocked in its
\* select; the WaitGroup is not touched.
Start_go(r) ==
  /\ pc[r] = "go"
  /\ watcher' = [watcher EXCEPT ![r] = Append(@, "select")]
  /\ trace' = [trace EXCEPT ![r] = Append(@, Ev("go", 0, 0, NoKey, "", 0, TRUE))]
  /\ Continue(r, 0, 0)
  /\ UNCHANGED others
  /\ UNCHANGED <<frontendSpecs, ctxDone, wg, store, lease, revokes, starts,
                 stops, stopped>>

\* (mutant) the failure is returned without canceling the context.
registerFrontend_err_NoCancel(r) ==
  /\ UNCHANGED ctxDone
  /\ Return(r, "err")

\* registerFrontend fails: Start cancels the context and returns the error.
registerFrontend_err(r) ==
  /\ ctxDone' = cancelFunc(r)
  /\ Return(r, "err")

\* (mutant) the frontend record is written under the lease.
registerFrontend_fesKey_WithLease(r) ==
  /\ pc[r] = "fesKey"
  /\ LET fes == frontendSpecs[r][feIdx[r]] IN
     \/ /\ Put(r, "frontend", feIdx[r], 0, fesKey(fes), spec(fes),
               leaseID(r), TRUE)
        /\ Continue(r, feIdx[r], 0)
        /\ UNCHANGED ctxDone
     \/ /\ Put(r, "frontend", feIdx[r], 0, fesKey(fes), spec(fes),
               leaseID(r), FALSE)
        /\ registerFrontend_err(r)
  /\ UNCHANGED others
  /\ UNCHANGED <<frontendSpecs, wg, watcher, lease, revokes, starts, stops,
                 stopped>>

\* registerFrontend: Put(fesKey, fes.spec()), no lease.  (The call passes a
\* nil OpOption as its only option; it is taken here as no option.)
registerFrontend_fesKey(r) ==
  /\ pc[r] = "fesKey"
  /\ LET fes == frontendSpecs[r][feIdx[r]] IN
     \/ /\ Put(r, "frontend", feIdx[r], 0, fesKey(fes), spec(fes), 0, TRUE)
        /\ Continue(r, feIdx[r], 0)
        /\ UNCHANGED ctxDone
     \/ /\ Put(r, "frontend", feIdx[r], 0, fesKey(fes), spec(fes), 0, FALSE)
        /\ registerFrontend_err(r)
  /\ UNCHANGED others
  /\ UNCHANGED <<frontendSpecs, wg, watcher, lease, revokes, starts, stops,
                 stopped>>

\* (mutant) the Priority the caller supplied is kept.
withPriority_Kept(mw, i) == mw

\* The middleware as registerFrontend writes it: mw.Priority = i, where i
\* is the zero-based index of the range loop.
withPriority(mw, i) == [mw EXCEPT !.Priority = i]

\* registerFrontend: Put(mwKey, json.Marshal(mw)), no lease.
registerFrontend_mwKey(r) ==
  /\ pc[r] = "mwKey"
  /\ LET fes == frontendSpecs[r][feIdx[r]]
         mw  == withPriority(fes.Middlewares[mwIdx[r]], mwIdx[r] - 1)
     IN
     \/ /\ Put(r, "middleware", feIdx[r], mwIdx[r], mwKey(fes, mw),
               Marshal(mw), 0, TRUE)
        /\ Continue(r, feIdx[r], mwIdx[r])
        /\ UNCHANGED ctxDone
     \/ /\ Put(r, "middleware", feIdx[r], mwIdx[r], mwKey(fes, mw),
               Marshal(mw), 0, FALSE)
        /\ registerFrontend_err(r)
  /\ UNCHANGED others
  /\ UNCHANGED <<frontendSpecs, wg, watcher, lease, revokes, starts, stops,
                 stopped>>

\* ------------------------------------------------------------------- Stop
\* (mutant) Stop waits without canceling the context.
Stop_NoCancel(r) ==
  /\ pc[r] = "idle"
  /\ stops[r] < MaxStops
  /\ stops' = [stops EXCEPT ![r] = @ + 1]
  /\ pc' = [pc EXCEPT ![r] = "wgWait"]
  /\ UNCHANGED others
  /\ UNCHANGED <<frontendSpecs, ctxDone, wg, feIdx, mwIdx, watcher, store,
                 lease, trace, startRet, revokes, starts, stopped>>

\* Stop: r.cancelFunc()
Stop(r) ==
  /\ pc[r] = "idle"
  /\ stops[r] < MaxStops
  /\ stops' = [stops EXCEPT ![r] = @ + 1]
  /\ ctxDone' = cancelFunc(r)
  /\ pc' = [pc EXCEPT ![r] = "wgWait"]
  /\ UNCHANGED others
  /\ UNCHANGED <<frontendSpecs, wg, feIdx, mwIdx, watcher, store, lease,
                 trace, startRet, revokes, starts, stopped>>

\* Stop: r.wg.Wait() returns once the counter is zero, and Stop with it.
Stop_wgWait(r) ==
  /\ pc[r] = "wgWait"
  /\ wg[r] = 0
  /\ pc' = [pc EXCEPT ![r] = "idle"]
  /\ stopped' = [stopped EXCEPT ![r] = @ + 1]
  /\ UNCHANGED others
  /\ UNCHANGED <<frontendSpecs, ctxDone, wg, feIdx, mwIdx, watcher, store,
                 lease, trace, startRet, revokes, starts, stops>>

\* ------------------------------------------------- the revoke watcher
\* (mutant) the goroutine leaves its select without issuing the Revoke.
watcher_Revoke_NoRequest(r, w) ==
  /\ w \in DOMAIN watcher[r]
  /\ watcher[r][w] = "select"
  /\ ctxDone[r]
  /\ watcher' = [watcher EXCEPT ![r][w] = "revoked"]
  /\ UNCHANGED others
  /\ UNCHANGED <<frontendSpecs, ctxDone, wg, pc, feIdx, mwIdx, trace, store,
                 lease, startRet, revokes, starts, stops, stopped>>

\* The goroutine's select: <-r.ctx.Done() fires and the goroutine issues
\* client.Revoke(context.Background(), r.leaseID).  The request removes the
\* lease and the keys attached to it, unless it fails (the lease is already
\* gone, or the store cannot be reached); the error is only logged.
watcher_Revoke(r, w) ==
  /\ w \in DOMAIN watcher[r]
  /\ watcher[r][w] = "select"
  /\ ctxDone[r]
  /\ watcher' = [watcher EXCEPT ![r][w] = "revoked"]
  /\ revokes' = [revokes EXCEPT ![r] = @ + 1]
  /\ \/ /\ lease[r].alive
        /\ lease' = [lease EXCEPT ![r].alive = FALSE]
        /\ store' = StoreDropLease(store, leaseID(r))
     \/ UNCHANGED <<lease, store>>
  /\ UNCHANGED others
  /\ UNCHANGED <<frontendSpecs, ctxDone, wg, pc, feIdx, mwIdx, trace,
                 startRet, starts, stops, stopped>>

\* The goroutine logs the outcome and returns.
watcher_return(r, w) ==
  /\ w \in DOMAIN watcher[r]
  /\ watcher[r][w] = "revoked"
  /\ watcher' = [watcher EXCEPT ![r][w] = "exited"]
  /\ UNCHANGED others
  /\ UNCHANGED <<frontendSpecs, ctxDone, wg, pc, feIdx, mwIdx, store, lease,
                 trace, startRet, revokes, starts, stops, stopped>>

\* ------------------------------------------------------------- the lease
\* (mutant) the keep-alive stream is not bound to the Registry's context.
KeepAlive_IgnoringCtx(r) ==
  /\ lease[r].alive
  /\ lease[r].ttl < LeaseTTL
  /\ lease' = [lease EXCEPT ![r].ttl = LeaseTTL]
  /\ UNCHANGED others
  /\ UNCHANGED <<frontendSpecs, ctxDone, wg, pc, feIdx, mwIdx, watcher,
                 store, trace, startRet, revokes, starts, stops, stopped>>

\* client.KeepAlive(ctx, resp.ID): the stream renews the lease to its full
\* TTL for as long as ctx is live.
KeepAlive(r) ==
  /\ ~ctxDone[r]
  /\ lease[r].alive
  /\ lease[r].ttl < LeaseTTL
  /\ lease' = [lease EXCEPT ![r].ttl = LeaseTTL]
  /\ UNCHANGED others
  /\ UNCHANGED <<frontendSpecs, ctxDone, wg, pc, feIdx, mwIdx, watcher,
                 store, trace, startRet, revokes, starts, stops, stopped>>

\* The store's clock: one tick less to live for the lease; at zero the
\* store expires the lease and deletes the keys attached to it.
Tick(r) ==
  /\ lease[r].alive
  /\ IF lease[r].ttl > 0
     THEN /\ lease' = [lease EXCEPT ![r].ttl = @ - 1]
          /\ UNCHANGED store
     ELSE /\ lease' = [lease EXCEPT ![r].alive = FALSE]
          /\ store' = StoreDropLease(store, leaseID(r))
  /\ UNCHANGED others
  /\ UNCHANGED <<frontendSpecs, ctxDone, wg, pc, feIdx, mwIdx, watcher,
                 trace, startRet, revokes, starts, stops, stopped>>

\* ------------------------------------------------------ the specification
Step(r) ==
  \/ \E fes \in FrontendInputs : AddFrontend(r, fes)
  \/ Start(r)
  \/ registerBackend_betKey(r)
  \/ registerBackend_besKey(r)
  \/ Start_serverPut(r)
  \/ Start_go(r)
  \/ registerFrontend_fesKey(r)
  \/ registerFrontend_mwKey(r)
  \/ Stop(r)
  \/ Stop_wgWait(r)
  \/ \E w \in 1..MaxStarts : watcher_Revoke(r, w)
  \/ \E w \in 1..MaxStarts : watcher_return(r, w)
  \/ KeepAlive(r)
  \/ Tick(r)

Next == \E r \in Single : Step(r)

Spec == Init /\ [][Next]_vars

\* Two instances of one app, each with its own backend ID and lease, used
\* from two processes against the one store.  The process of the first
\* makes one call fewer of every method than the single instance above;
\* the process of the second adds one frontend and calls Start and Stop
\* once.
PairLimit(r, max) == IF r = 1 THEN max - 1 ELSE 1

\* Both register routes of the one app: the two frontend specs that derive
\* the same key.
PairInputs == {fes \in FrontendInputs : fes.ID = "post.b"}

PairStep(r) ==
  /\ Step(r)
  /\ Len(frontendSpecs'[r]) <= PairLimit(r, MaxFrontends)
  /\ \A i \in DOMAIN frontendSpecs'[r] : frontendSpecs'[r][i] \in PairInputs
  /\ starts'[r] <= PairLimit(r, MaxStarts)
  /\ stops'[r] <= PairLimit(r, MaxStops)

PairNext == \E r \in Regs : PairStep(r)

PairSpec == Init /\ [][PairNext]_vars

\* The call of NewRegistry on its own, from the call to the return.
NewRegistryInit ==
  /\ \E ttl \in TTLInputs, etcdNil \in BOOLEAN : nr = NrCalled(ttl, etcdNil)
  /\ RegInit /\ smr = SmInit /\ loc = LocIdle

NewRegistryNext ==
  \/ NewRegistry_newBackendSpec
  \/ NewRegistry_etcdNew
  \/ NewRegistry_Grant
  \/ NewRegistry_KeepAlive

NewRegistrySpec == NewRegistryInit /\ [][NewRegistryNext]_vars

TypeOK ==
  /\ \A r \in Regs : wg[r] = 0 /\ Len(frontendSpecs[r]) <= MaxFrontends
  /\ \A k \in DOMAIN store : store[k].lease \in {0} \cup Regs

\* The same, with the scheduling the program relies on: a method that has
\* been entered runs to its return, a launched goroutine gets to run, and
\* the store's clock advances.  Calls of the methods and renewals by the
\* keep-alive stream are not forced.
Fairness(r) ==
  /\ WF_vars(registerBackend_betKey(r))
  /\ WF_vars(registerBackend_besKey(r))
  /\ WF_vars(Start_serverPut(r))
  /\ WF_vars(Start_go(r))
  /\ WF_vars(registerFrontend_fesKey(r))
  /\ WF_vars(registerFrontend_mwKey(r))
  /\ WF_vars(Stop_wgWait(r))
  /\ \A w \in 1..MaxStarts : WF_vars(watcher_Revoke(r, w))
  /\ \A w \in 1..MaxStarts : WF_vars(watcher_return(r, w))
  /\ WF_vars(Tick(r))

FairSpec == Spec /\ \A r \in Single : Fairness(r)

\* ------------------------------------------------------- helper predicates
\* The last request of r's current (or last) Start.
Last(r) == trace[r][Len(trace[r])]

\* r's last Start returned an error because the named kind of Put failed.
FailedAt(r, kinds) ==
  /\ startRet[r] = "err"
  /\ trace[r] # << >>
  /\ ~Last(r).ok
  /\ Last(r).kind \in kinds

\* Some goroutine of r has not yet exited / is still blocked in its select.
Running(r) == \E w \in DOMAIN watcher[r] : watcher[r][w] # "exited"
Waiting(r) == \E w \in DOMAIN watcher[r] : watcher[r][w] = "select"

\* ------------------------------------------------------------------ claims

\* C1: once Start has returned nil, Stop does not return before the
\* revoke watcher has issued its Revoke and has exited.
C1_StopWaitsForWatcher ==
  \A r \in Single :
    (startRet[r] = "nil" /\ stopped[r] > 0) =>
      (revokes[r] > 0 /\ ~Running(r))

\* C2 (as stated): every call of Stop, whatever came before it, is
\* eventually followed by a Revoke request for the lease.
C2_StopLeadsToRevoke ==
  \A r \in Single : (stops[r] > 0) ~> (revokes[r] > 0)

\* C2 (amended): a call of Stop made while a watcher launched by an earlier
\* Start is waiting on the context is eventually followed by a Revoke
\* request; as long as no Start has launched a watcher, no Revoke request
\* is issued at all.
C2_StopWithWatcherLeadsToRevoke ==
  /\ \A r \in Single : \A n \in 0..MaxStarts :
       (pc[r] = "wgWait" /\ Waiting(r) /\ revokes[r] = n) ~> (revokes[r] > n)
  /\ [](\A r \in Single : watcher[r] = << >> => revokes[r] = 0)

\* C2 witness: Stop has been called after a successful Start and the
\* Revoke request has been issued.
C2_Witness ==
  \E r \in Single : stops[r] > 0 /\ startRet[r] = "nil" /\ revokes[r] > 0

\* C3 (as stated): when any Put of Start fails, Start issues no further
\* Put, returns an error, and the context is canceled when Start returns.
C3_AnyPutFailureCancels ==
  \A r \in Single :
    /\ \A i \in 1..(Len(trace[r]) - 1) : trace[r][i].ok
    /\ (trace[r] # << >> /\ ~Last(r).ok) => startRet[r] = "err"
    /\ startRet[r] = "err" => ctxDone[r]

\* C3 (amended): when a Put of Start fails, Start issues no further Put and
\* returns an error; the context is canceled when Start returns if the
\* failed Put is that of a frontend or a middleware record, and it is left
\* as it was if the failed Put is that of the backend-type or the server
\* record.
C3_FrontendPutFailureCancels ==
  /\ [](\A r \in Single :
         /\ \A i \in 1..(Len(trace[r]) - 1) : trace[r][i].ok
         /\ (trace[r] # << >> /\ ~Last(r).ok) <=> startRet[r] = "err"
         /\ FailedAt(r, {"frontend", "middleware"}) => ctxDone[r])
  /\ [][\A r \in Single :
         (startRet[r] # "err" /\ FailedAt(r, {"backend", "server"})')
           => ctxDone'[r] = ctxDone[r]]_vars

\* C3 witness: Start has returned an error for a failed middleware Put.
C3_Witness ==
  \E r \in Single : FailedAt(r, {"middleware"}) /\ ctxDone[r] /\ stops[r] = 0

\* C4: when the Put of a frontend or middleware record fails, Start returns
\* an error with the context canceled, a Stop never blocks in its wait, the
\* watcher eventually issues a Revoke, and the server record is eventually
\* absent from the store.
C4_FrontendFailureRevokes ==
  /\ [](\A r \in Single :
         /\ (trace[r] # << >> /\ ~Last(r).ok
               /\ Last(r).kind \in {"frontend", "middleware"})
              => (startRet[r] = "err" /\ ctxDone[r])
         /\ pc[r] = "wgWait" => ENABLED Stop_wgWait(r))
  /\ \A r \in Single :
       FailedAt(r, {"frontend", "middleware"}) ~> (revokes[r] > 0)
  /\ \A r \in Single :
       FailedAt(r, {"frontend", "middleware"}) ~> (besKey(r) \notin DOMAIN store)

\* C4 witness: the second frontend's Put failed, Stop was called and has
\* returned, the Revoke was issued and the server record is gone.
C4_Witness ==
  \E r \in Single :
    /\ FailedAt(r, {"frontend"}) /\ Last(r).fe = 2
    /\ stopped[r] > 0 /\ revokes[r] > 0
    /\ besKey(r) \notin DOMAIN store

\* The value of the last successful Put of r's current Start to key k.
LastPutVal(r, k) ==
  LET I == {i \in 1..Len(trace[r]) : trace[r][i].ok /\ trace[r][i].key = k}
  IN  trace[r][CHOOSE i \in I : \A j \in I : j <= i].val

\* The successful lease-independent Puts of r's current Start.
PlainPuts(r) ==
  {i \in 1..Len(trace[r]) :
     trace[r][i].ok /\ trace[r][i].lease = 0 /\ trace[r][i].kind # "go"}

\* C5 (as stated): when Start fails at the k-th frontend, every
\* lease-independent record put before is in the store with the value
\* written, and no record of a later frontend is written.
C5_NoRollbackValueWritten ==
  \A r \in Single :
    FailedAt(r, {"frontend", "middleware"}) =>
      /\ \A i \in PlainPuts(r) :
           /\ trace[r][i].key \in DOMAIN store
           /\ store[trace[r][i].key].val = trace[r][i].val
      /\ \A i \in 1..Len(trace[r]) : trace[r][i].fe <= Last(r).fe

\* C5 (amended): when Start fails at the k-th frontend, every key put
\* successfully without a lease before the failure is still in the store,
\* with the value of the last successful Put of that Start to the key (two
\* frontends, or two middlewares of a frontend, can share a key, and the
\* later Put overwrites the earlier); no record of a later frontend is
\* written.
C5_NoRollbackLastValue ==
  \A r \in Single :
    FailedAt(r, {"frontend", "middleware"}) =>
      /\ \A i \in PlainPuts(r) :
           /\ trace[r][i].key \in DOMAIN store
           /\ store[trace[r][i].key].val = LastPutVal(r, trace[r][i].key)
           /\ store[trace[r][i].key].lease = 0
      /\ \A i \in 1..Len(trace[r]) : trace[r][i].fe <= Last(r).fe

\* C5 witness: Start failed at the second frontend after its record was
\* written, with the first frontend and its middleware in the store.
C5_Witness ==
  \E r \in Single :
    /\ FailedAt(r, {"middleware"}) /\ Last(r).fe = 2
    /\ Len(frontendSpecs[r]) = 2
    /\ Cardinality(PlainPuts(r)) >= 4

\* The phase of Start a trace entry belongs to.
Phase(e) ==
  CASE e.kind = "backend" -> 1
    [] e.kind = "server"  -> 2
    [] e.kind = "go"      -> 3
    [] OTHER              -> 4

\* Entry a of the trace comes no later than entry b in the order of Start.
Before(a, b) ==
  \/ Phase(a) < Phase(b)
  \/ /\ Phase(a) = Phase(b)
     /\ Phase(a) < 4 \/ a.fe < b.fe \/ (a.fe = b.fe /\ a.mw < b.mw)

\* C6: the requests of Start come in the order backend-type Put, server
\* Put, launch of the watcher, then per frontend in list order its record
\* and its middlewares in list order; a frontend or middleware Put comes
\* after a successful server Put and after the launch.
C6_StartOrder ==
  \A r \in Single :
    LET t == trace[r] IN
    /\ \A i, j \in 1..Len(t) : i < j => Before(t[i], t[j])
    /\ t # << >> => t[1].kind = "backend"
    /\ \A j \in 1..Len(t) :
         Phase(t[j]) = 4 =>
           /\ \E i \in 1..(j - 1) : t[i].kind = "server" /\ t[i].ok /\ t[i].lease # 0
           /\ \E i \in 1..(j - 1) : t[i].kind = "go"
           /\ t[j].fe \in 1..Len(frontendSpecs[r])
           /\ t[j].key.a = fesKey(frontendSpecs[r][t[j].fe]).a
           /\ t[j].kind = "frontend" <=> t[j].mw = 0
           /\ t[j].kind = "middleware" =>
                /\ t[j].mw \in 1..Len(frontendSpecs[r][t[j].fe].Middlewares)
                /\ t[j].key.b = frontendSpecs[r][t[j].fe].Middlewares[t[j].mw].ID
                /\ \E i \in 1..(j - 1) :
                     t[i].kind = "frontend" /\ t[i].fe = t[j].fe /\ t[i].ok

\* C6 witness: a Start that wrote two frontends, the first with two
\* middlewares, and returned nil.
C6_Witness ==
  \E r \in Single :
    /\ startRet[r] = "nil"
    /\ \E j \in 1..Len(trace[r]) : trace[r][j].fe = 2
    /\ \E j \in 1..Len(trace[r]) : trace[r][j].fe = 1 /\ trace[r][j].mw = 2

\* Number of requests of the given kind in r's trace.
Count(t, kind) == Cardinality({i \in 1..Len(t) : t[i].kind = kind})

\* Sum of the lengths of the middleware lists of the first n frontends.
RECURSIVE SumMw(_, _)
SumMw(fs, n) == IF n = 0 THEN 0 ELSE Len(fs[n].Middlewares) + SumMw(fs, n - 1)

\* C7: at the return of a successful Start the requests made are exactly 1
\* backend-type Put, 1 server Put (with the lease), F frontend Puts and
\* sum-of-middlewares middleware Puts.
C7_ExactPutCounts ==
  [][\A r \in Single :
       (startRet[r] # "nil" /\ startRet'[r] = "nil") =>
         LET t == trace'[r] IN
         /\ Count(t, "backend") = 1
         /\ Count(t, "server") = 1
         /\ \A i \in 1..Len(t) : (t[i].lease # 0) <=> (t[i].kind = "server")
         /\ Count(t, "frontend") = Len(frontendSpecs[r])
         /\ Count(t, "middleware") = SumMw(frontendSpecs[r], Len(frontendSpecs[r]))]_vars

\* C8: the only key ever attached to a lease is the server key of the
\* lease's Registry; once the lease is gone the server key is absent, and
\* the backend-type, frontend and middleware keys Start wrote are present.
C8_OnlyServerKeyLeased ==
  \A r \in Single :
    /\ \A k \in DOMAIN store :
         /\ store[k].lease # 0 => k = besKey(store[k].lease)
         /\ k.kind \in {"backend", "frontend", "middleware"} => store[k].lease = 0
         /\ k.kind = "server" => store[k].lease # 0
    /\ ~lease[r].alive => besKey(r) \notin DOMAIN store
    /\ \A i \in PlainPuts(r) : trace[r][i].key \in DOMAIN store

\* C8 witness: the lease is gone after a Start that wrote the server
\* record and a middleware record.
C8_Witness ==
  \E r \in Single :
    /\ ~lease[r].alive
    /\ \E i \in 1..Len(trace[r]) : trace[r][i].kind = "server" /\ trace[r][i].ok
    /\ \E i \in PlainPuts(r) : trace[r][i].kind = "middleware"
    /\ besKey(r) \notin DOMAIN store

\* C9: once the context is canceled the lease is no longer renewed, and the
\* lease and the server record are eventually gone from the store, at most
\* one TTL later, whether or not a Revoke is issued or succeeds.
C9_LeaseExpiresAfterCancel ==
  /\ [](\A r \in Single : lease[r].ttl \in 0..LeaseTTL)
  /\ [][\A r \in Single :
         (ctxDone[r] /\ lease'[r].alive) => lease'[r].ttl <= lease[r].ttl]_vars
  /\ \A r \in Single :
       ctxDone[r] ~> (~lease[r].alive /\ besKey(r) \notin DOMAIN store)

\* C9 witness: the server record was written, the context was canceled, no
\* Revoke was ever issued, and the lease has expired.
C9_Witness ==
  \E r \in Single :
    /\ ctxDone[r] /\ revokes[r] = 0 /\ ~lease[r].alive
    /\ \E i \in 1..Len(trace[r]) : trace[r][i].kind = "server" /\ trace[r][i].ok
    /\ besKey(r) \notin DOMAIN store

\* C10: Stop always returns; the first Stop returns after the background
\* task has completed, a second Stop returns at once, and the WaitGroup's
\* counter never goes negative.
C10_StopTerminates ==
  \A r \in Single :
    /\ wg[r] >= 0
    /\ pc[r] = "wgWait" => (wg[r] = 0 \/ Running(r))
    /\ stopped[r] >= 1 => ~Running(r)

\* The keys of the store that are not r's server key.
NotServerOf(r) == DOMAIN store \ {besKey(r)}

\* C11: two instances of one app share the backend-type key and the
\* frontend and middleware keys, and each has one server key, attached to
\* its own lease; when the lease of one instance is revoked or expires,
\* only that instance's server key goes: the other instance's server key
\* and all shared keys stay, with their values.
C11_InstancesShareAllButServer ==
  /\ [](\A k \in DOMAIN store :
         /\ store[k].lease # 0 => k = besKey(store[k].lease)
         /\ k.kind = "server" => \E r \in Regs : k = besKey(r)
                                     /\ store[k].lease = leaseID(r)
                                     /\ store[k].val = serverSpec(r)
                                     /\ lease[r].alive
         /\ k.kind = "backend" => k = betKey /\ store[k].val = typeSpec)
  /\ [](\A r \in Regs : \A i \in PlainPuts(r) : trace[r][i].key \in DOMAIN store)
  /\ [][\A r \in Regs :
         (lease[r].alive /\ ~lease'[r].alive) =>
           /\ DOMAIN store' = NotServerOf(r)
           /\ \A k \in NotServerOf(r) : store'[k] = store[k]]_vars

\* C11 witness: both instances have registered the same frontend, the
\* lease of the first is gone and the server key of the second is there.
C11_Witness ==
  /\ ~lease[1].alive /\ lease[2].alive
  /\ besKey(1) \notin DOMAIN store /\ besKey(2) \in DOMAIN store
  /\ startRet[1] = "nil" /\ startRet[2] = "nil"
  /\ frontendSpecs[1] # << >> /\ frontendSpecs[1] = frontendSpecs[2]
  /\ betKey \in DOMAIN store

\* C12: the middleware record Start writes for the middleware at zero-based
\* position i of a frontend's list carries Priority = i, whatever Priority
\* the caller supplied; positions are counted per frontend.
C12_PriorityIsPosition ==
  \A r \in Single : \A j \in 1..Len(trace[r]) :
    LET e == trace[r][j] IN
    e.kind = "middleware" =>
      e.val = Marshal(Mw(frontendSpecs[r][e.fe].Middlewares[e.mw].ID, e.mw - 1))

\* C12 witness: a Start wrote the second middleware of the first frontend
\* (supplied with Priority 7) with Priority 1 and the first middleware of
\* the second frontend (supplied with Priority 3) with Priority 0.
C12_Witness ==
  \E r \in Single :
    /\ startRet[r] = "nil"
    /\ \E j \in 1..Len(trace[r]) :
         /\ trace[r][j].fe = 1 /\ trace[r][j].mw = 2
         /\ frontendSpecs[r][1].Middlewares[2].Priority = 7
         /\ trace[r][j].val = "{ID:m2,Priority:1}"
    /\ \E j \in 1..Len(trace[r]) :
         /\ trace[r][j].fe = 2 /\ trace[r][j].mw = 1
         /\ frontendSpecs[r][2].Middlewares[1].Priority = 3
         /\ trace[r][j].val = "{ID:m2,Priority:0}"

\* C13: AddFrontend changes the frontend list only: it appends one spec at
\* the end, and the store, the lease, the context and everything else of
\* the Registry are as before.
C13_AddFrontendFrame ==
  [][\A r \in Single :
       frontendSpecs'[r] # frontendSpecs[r] =>
         /\ Len(frontendSpecs'[r]) = Len(frontendSpecs[r]) + 1
         /\ SubSeq(frontendSpecs'[r], 1, Len(frontendSpecs[r])) = frontendSpecs[r]
         /\ frontendSpecs'[r][Len(frontendSpecs'[r])] \in FrontendInputs
         /\ store' = store /\ lease' = lease /\ ctxDone' = ctxDone
         /\ trace' = trace /\ revokes' = revokes /\ watcher' = watcher
         /\ wg' = wg /\ startRet' = startRet]_vars

\* C13 witness: a second, different frontend was added after a Start.
C13_Witness ==
  \E r \in Single :
    /\ Len(frontendSpecs[r]) = 2 /\ frontendSpecs[r][1] # frontendSpecs[r][2]
    /\ starts[r] > 0 /\ store # << >> /\ Len(trace[r]) < 5 /\ startRet[r] = "nil"

\* C14: NewRegistry returns either a Registry, with the lease granted and
\* the keep-alive started, or an error and no Registry; a failing step is
\* returned at once: every step is made at most once, in the order of the
\* code, and none after a failed one.
C14_NewRegistryFailsFast ==
  /\ \A i \in 1..Len(nr.calls) :
       /\ i <= Len(NewRegistrySteps)
       /\ nr.calls[i].step = NewRegistrySteps[i]
       /\ i < Len(nr.calls) => nr.calls[i].ok
  /\ nr.reg => (nr.pc = "done" /\ ~nr.err /\ nr.granted /\ nr.keepAlive
                 /\ Len(nr.calls) = Len(NewRegistrySteps))
  /\ nr.err => (nr.pc = "done" /\ ~nr.reg /\ ~nr.calls[Len(nr.calls)].ok)
  /\ nr.pc = "done" => (nr.reg \/ nr.err)
  /\ (nr.calls # << >> /\ ~nr.calls[Len(nr.calls)].ok) => nr.err
  /\ nr.keepAlive => nr.granted

\* C14 witness: NewRegistry returned the error of a failed lease grant.
C14_Witness ==
  /\ nr.err /\ ~nr.reg /\ Len(nr.calls) = 3 /\ ~nr.granted /\ ~nr.keepAlive

\* Instance i is the master in the store: the server record is its own.
Owns(i) == smr.server.present /\ smr.server.val = ServerSpecOf(i)

\* C15: at most one instance's server record is stored at any time;
\* assumeMasterRole succeeds only when no unexpired server record exists,
\* maintainMasterRole only when the stored record is the caller's own, and
\* a RegisterApp never overwrites the live record of another instance.
C15_SingleMaster ==
  /\ [](smr.server.present => \E i \in Insts : Owns(i) /\ \A j \in Insts \ {i} : ~Owns(j))
  /\ [][(smr.server.present /\ smr'.server.present)
          => smr'.server.val = smr.server.val]_vars
  /\ [][\A i \in Insts :
         (smr.pc[i] = "registerServer" /\ smr'.ret[i] = "nil"
            /\ smr'.cause[i] = "Create") => ~smr.server.present /\ Owns(i)']_vars
  /\ [][\A i \in Insts :
         (smr.pc[i] = "registerServer" /\ smr'.ret[i] = "nil"
            /\ smr'.cause[i] = "CompareAndSwap") => Owns(i) /\ Owns(i)']_vars

\* C15 witness: the second instance's RegisterApp failed in Create while
\* the first instance's record is in the store.
C15_Witness ==
  /\ Owns(1) /\ smr.IsMaster[1]
  /\ smr.ret[2] = "err" /\ smr.cause[2] = "Create" /\ ~smr.IsMaster[2]

\* C16: when the master stops calling RegisterApp, its record expires, and
\* a live instance that keeps calling RegisterApp eventually creates the
\* server record and has IsMaster = true.
C16_Failover ==
  \A i, j \in Insts :
    (i # j /\ Owns(i) /\ smr.pc[i] = "down") ~>
      (~Owns(i) /\ ((Owns(j) /\ smr.IsMaster[j]) \/ smr.pc[j] = "down"))

\* C16 witness: the first instance was master and is down, and the second
\* has the server record and IsMaster = true.
C16_Witness ==
  /\ smr.pc[1] = "down" /\ smr.IsMaster[1]
  /\ Owns(2) /\ smr.IsMaster[2] /\ smr.ret[2] = "nil"

\* NewLocation has returned.
LocBuilt == loc.pc \in {"Location", "marshaled"}

\* The path in the proxy's syntax, character by character.
Angle(path) ==
  [i \in DOMAIN path |->
     CASE path[i] = "{" -> "<" [] path[i] = "}" -> ">" [] OTHER -> path[i]]

\* str contains sub as a substring.
Contains(str, sub) ==
  \E k \in 0..(Len(str) - Len(sub)) :
    \A i \in 1..Len(sub) : str[k + i] = sub[i]

GetPost == << <<"G", "E", "T">>, <<"P", "O", "S", "T">> >>
ResourcesId ==
  <<"/", "r", "e", "s", "o", "u", "r", "c", "e", "s", "/", "{", "i",
    "d", "}">>

\* C17: the frontend ID is lowercase(join(methods, ".") + path') with every
\* "/" replaced by ".", path' being the path with {} turned into <>; it has
\* no "/" and no upper-case letter; GET, POST and /resources/{id} give
\* get.post.resources.<id>.
C17_LocationID ==
  LocBuilt =>
    /\ loc.ID = Replace(ToLower(Join(loc.methods, <<".">>) \o Angle(loc.path)),
                        "/", ".")
    /\ \A i \in DOMAIN loc.ID :
         loc.ID[i] # "/" /\ \A u \in DOMAIN Upper : loc.ID[i] # Upper[u]
    /\ (loc.methods = GetPost /\ loc.path = ResourcesId) =>
         loc.ID =
           <<"g", "e", "t", ".", "p", "o", "s", "t", ".", "r", "e",
             "s", "o", "u", "r", "c", "e", "s", ".", "<", "i", "d",
             ">">>

\* C17 witness: NewLocation was called with GET, POST and /resources/{id}.
C17_Witness ==
  LocBuilt /\ loc.methods = GetPost /\ loc.path = ResourcesId
    /\ Len(loc.ID) = 23

\* The method lists that are permutations of methods.
Perms(methods) ==
  {[i \in DOMAIN methods |-> methods[f[i]]] : f \in Permutations(DOMAIN methods)}

\* C18: for the same path, a method list that is a permutation of the one
\* given, and not equal to it, does not derive both the same ID (the key)
\* and the same route-match expression (the value).
C18_MethodOrderMatters ==
  LocBuilt =>
    \A m \in Perms(loc.methods) :
      m # loc.methods =>
        ~ /\ makeLocationID(m, convertPath(loc.path)) = loc.ID
          /\ makeLocationPath(m, convertPath(loc.path)) = loc.Path

\* C18 witness: a method list a permutation of which derives the same ID,
\* and a different route.
C18_Witness ==
  /\ LocBuilt
  /\ \E m \in Perms(loc.methods) :
       /\ m # loc.methods
       /\ makeLocationID(m, convertPath(loc.path)) = loc.ID
       /\ makeLocationPath(m, convertPath(loc.path)) # loc.Path

\* The methods, each in double quotes and followed by a comma and a space.
RECURSIVE Quoted(_)
Quoted(methods) ==
  IF methods = << >> THEN << >>
  ELSE <<"\"">> \o Head(methods) \o <<"\"", ",", " ">> \o Quoted(Tail(methods))

Hello ==
  <<"/", "h", "e", "l", "l", "o">>

\* C19: for a non-empty method list the route-match expression is
\* TrieRoute("m1", "m2", ..., "p'"), the methods in the caller's order and
\* p' the path with {} turned into <>; GET and /hello give
\* TrieRoute("GET", "/hello").
C19_RouteExpression ==
  (LocBuilt /\ loc.methods # << >>) =>
    /\ loc.Path = <<"T", "r", "i", "e", "R", "o", "u", "t", "e", "(">>
                    \o Quoted(loc.methods)
                    \o <<"\"">> \o Angle(loc.path) \o <<"\"", ")">>
    /\ (loc.methods = << <<"G", "E", "T">> >> /\ loc.path = Hello) =>
         loc.Path =
           <<"T", "r", "i", "e", "R", "o", "u", "t", "e", "(", "\"",
             "G", "E", "T", "\"", ",", " ", "\"", "/", "h", "e", "l",
             "l", "o", "\"", ")">>

\* C19 witness: a route of two methods and a path with two variables.
C19_Witness ==
  /\ LocBuilt /\ Len(loc.methods) = 2 /\ loc.methods[1] # loc.methods[2]
  /\ Contains(loc.path, <<"{", "c", "}">>)
  /\ Contains(loc.Path, <<"<", "c", ">">>)

AndAnd == <<"&", "&">>
LessThree == <<"<", "3">>

\* C20: the marshaled Options contain the failover predicate verbatim: <,
\* > and & are not escaped; for A() && B() <3 the document contains &&
\* and <3.
C20_OptionsVerbatim ==
  loc.pc = "marshaled" =>
    /\ Contains(loc.json, loc.FailoverPredicate)
    /\ Len(loc.json) = Len(OptionsOpen) + Len(loc.FailoverPredicate) + 2
    /\ Contains(loc.FailoverPredicate, AndAnd) => Contains(loc.json, AndAnd)
    /\ Contains(loc.FailoverPredicate, LessThree) => Contains(loc.json, LessThree)
    /\ \A c \in {"<", ">", "&"} :
         Cardinality({i \in DOMAIN loc.json : loc.json[i] = c})
           = Cardinality({i \in DOMAIN loc.FailoverPredicate :
                            loc.FailoverPredicate[i] = c})

\* C20 witness: the Options with the predicate A() && B() <3 were marshaled.
C20_Witness ==
  /\ loc.pc = "marshaled"
  /\ Contains(loc.FailoverPredicate, AndAnd)
  /\ Contains(loc.FailoverPredicate, LessThree)
  /\ Len(loc.FailoverPredicate) = 13

\* C21: a Registry has at most one revoke watcher and one lease for its
\* whole lifetime: whatever the calls of AddFrontend, Start and Stop, at
\* most one goroutine has been launched, every request that names a lease
\* names the one granted at construction, and at most one Revoke is issued.
C21_OneWatcherOneLease ==
  \A r \in Single :
    /\ Len(watcher[r]) <= 1
    /\ revokes[r] <= 1
    /\ \A i \in DOMAIN trace[r] : trace[r][i].lease \in {0, leaseID(r)}

\* NewRegistry has issued the lease grant.
GrantRequested == \E i \in DOMAIN nr.calls : nr.calls[i].step = "Grant"

\* C22: NewRegistry requests the lease with a TTL of 30 seconds when the
\* configured TTL is zero or negative, and for a positive configured TTL
\* with a positive TTL that is the configured duration in seconds.
C22_GrantTTL ==
  GrantRequested =>
    IF nr.cfgTTL <= 0
    THEN nr.grantTTL = 30
    ELSE nr.grantTTL > 0 /\ nr.grantTTL * 1000 = nr.cfgTTL

\* C23: among the running instances that register one app under one key,
\* at most one has IsMaster = true, whatever the interleaving of their
\* RegisterApp calls and the expiries of the server record.
C23_AtMostOneIsMaster ==
  \A i, j \in Insts :
    (smr.pc[i] # "down" /\ smr.pc[j] # "down"
       /\ smr.IsMaster[i] /\ smr.IsMaster[j]) => i = j

\* The step is a return of RegisterApp to instance i's caller.
SmReturns(i) ==
  /\ smr.pc[i] # "down" /\ smr'.pc[i] = "idle"
  /\ \/ smr.pc[i] # "idle"
     \/ <<smr'.ret[i], smr'.cause[i]>> # <<smr.ret[i], smr.cause[i]>>

\* C24: RegisterApp returns nil only when the backend record has been
\* written and the server record in the store is the caller's own, with
\* IsMaster = true; an invalid endpoint, a serialization failure, a store
\* failure or another master's record make it return an error; a failed
\* create leaves IsMaster false and a failed compare-and-swap sets it false.
C24_NilOnlyWhenMaster ==
  [][\A i \in Insts :
       SmReturns(i) =>
         /\ smr'.ret[i] \in {"nil", "err"}
         /\ smr'.ret[i] = "nil" =>
              /\ smr'.backend
              /\ smr'.server.present /\ smr'.server.val = ServerSpecOf(i)
              /\ smr'.IsMaster[i]
         /\ smr'.cause[i] \in {"endpoint", "BackendSpec", "Set", "ServerSpec"} =>
              smr'.ret[i] = "err"
         /\ smr'.ret[i] = "err" /\ smr'.cause[i] \in {"Create", "CompareAndSwap"} =>
              ~smr'.IsMaster[i]]_vars

====
